---- MODULE Spec2Model ----
(***************************************************************************)
(* A model of prettylog (src/prettylog/prettylog.py): the continuous table *)
(* renderer, the one-shot table printer, the level-aware formatter and the *)
(* logging configuration builder.                                          *)
(*                                                                         *)
(* Text is modelled as a sequence of one-character strings.  The box       *)
(* drawing glyphs of the source are not ASCII, so each is a named          *)
(* character below.  A Python value is a tagged record (PyInt, PyStr,      *)
(* PyFloat); an optional argument is <<>> (None) or <<v>>.                 *)
(***************************************************************************)
EXTENDS Integers, Sequences, FiniteSets, TLC

VARIABLES
    table,      \* <<>> before construction, else <<self>>: the ContinuousTable
    formatter,  \* <<>> before construction, else <<self>>: the CustomFormatter
    dirs,       \* the directories that exist on the file system
    call,       \* the call the caller made last (op and arguments), or idle
    raised,     \* the exception that call raised, or "none"
    emitted,    \* the sink calls that call made, in order: [sink, line]
    result      \* <<>> or <<v>>: the value that call returned

vars == <<table, formatter, dirs, call, raised, emitted, result>>

(***************************************************************************)
(* Bounds of the model.                                                    *)
(***************************************************************************)
\* the longest column list a caller passes to ContinuousTable
MaxCols == 2
\* the longest text the tabular formatting routine returns to print_table
MaxText == 4

(***************************************************************************)
(* Characters.                                                             *)
(***************************************************************************)
\* U+2500 '─'
BOX_H == "BOX_H"
\* U+2502 '│'
BOX_V == "BOX_V"
\* U+250C '┌'
BOX_DR == "BOX_DR"
\* U+2510 '┐'
BOX_DL == "BOX_DL"
\* U+2514 '└'
BOX_UR == "BOX_UR"
\* U+2518 '┘'
BOX_UL == "BOX_UL"
\* U+251C '├'
BOX_VR == "BOX_VR"
\* U+2524 '┤'
BOX_VL == "BOX_VL"
\* U+252C '┬'
BOX_DH == "BOX_DH"
\* U+2534 '┴'
BOX_UH == "BOX_UH"
\* U+253C '┼'
BOX_VH == "BOX_VH"
\* U+0020 ' '
SP == " "
\* U+000A, the line separator print_table splits on
NL == "\n"

(***************************************************************************)
(* Python values and built-ins.                                            *)
(***************************************************************************)
PyInt(n) == [t |-> "int", n |-> n, s |-> <<>>]
PyStr(s) == [t |-> "str", n |-> 0, s |-> s]
\* a float with one decimal, n its tenths: PyFloat(15) is 1.5
PyFloat(n) == [t |-> "float", n |-> n, s |-> <<>>]

\* c * n: the empty text when n <= 0
Repeat(c, n) == [i \in 1..n |-> c]

DigitChar == <<"0", "1", "2", "3", "4", "5", "6", "7", "8", "9">>

RECURSIVE NatStr(_)
NatStr(n) ==
    IF n < 10 THEN <<DigitChar[n + 1]>>
    ELSE NatStr(n \div 10) \o <<DigitChar[(n % 10) + 1]>>

\* str(item)
str(v) ==
    CASE v.t = "str" -> v.s
      [] v.t = "int" -> IF v.n < 0 THEN <<"-">> \o NatStr(-v.n) ELSE NatStr(v.n)
      [] v.t = "float" -> NatStr(v.n \div 10) \o <<".">> \o NatStr(v.n % 10)

\* a mutant of PyFormat: the text is cut to the field's width
PyFormatTruncating(text, align, width) ==
    LET cut == IF Len(text) > width THEN SubSeq(text, 1, width) ELSE text
        pad == width - Len(cut)
    IN  CASE align \in {"<", ""} -> [ok |-> TRUE, s |-> cut \o Repeat(SP, pad)]
          [] align = ">" -> [ok |-> TRUE, s |-> Repeat(SP, pad) \o cut]
          [] align = "^" ->
                [ok |-> TRUE,
                 s |-> Repeat(SP, pad \div 2) \o cut
                        \o Repeat(SP, pad - (pad \div 2))]
          [] OTHER -> [ok |-> FALSE, s |-> <<>>]

\* f"{text:{align}{width}}" for a str: the format spec is align followed by
\* the width's digits.  '<', '>' and '^' pad with spaces to the width; no
\* alignment character is the default for text, '<'; a longer text is kept
\* whole; any other alignment character makes the spec invalid (ValueError).
PyFormat(text, align, width) ==
    LET pad == IF width > Len(text) THEN width - Len(text) ELSE 0
    IN  CASE align \in {"<", ""} -> [ok |-> TRUE, s |-> text \o Repeat(SP, pad)]
          [] align = ">" -> [ok |-> TRUE, s |-> Repeat(SP, pad) \o text]
          [] align = "^" ->
                [ok |-> TRUE,
                 s |-> Repeat(SP, pad \div 2) \o text
                        \o Repeat(SP, pad - (pad \div 2))]
          [] OTHER -> [ok |-> FALSE, s |-> <<>>]

(***************************************************************************)
(* ContinuousTable.  Each method is an operator from the object and the    *)
(* arguments to its outcome: the object afterwards (<<>> when __init__     *)
(* raises), the exception raised and the sink calls made.                  *)
(***************************************************************************)
Outcome(self, exc, calls) == [self |-> self, raised |-> exc, emitted |-> calls]

\* the alignment symbols __init__ accepts
ALIGNMENTS == {"<", ">", "^"}

\* a mutant of init: the lengths of the two lists are not compared
initNoLengthCheck(is_list, col_widths, col_align, stream) ==
    IF ~is_list \/ ~(\A i \in 1..Len(col_widths) :
                        col_widths[i].t = "int" /\ col_widths[i].n > 0)
    THEN Outcome(<<>>, "ValueError", <<>>)
    ELSE IF ~(\A i \in 1..Len(col_align) : col_align[i] \in ALIGNMENTS)
    THEN Outcome(<<>>, "ValueError", <<>>)
    ELSE Outcome(<<[col_widths |-> col_widths,
                    col_align |-> col_align,
                    stream |-> stream]>>, "none", <<>>)

\* ContinuousTable.__init__(col_widths, col_align, stream); is_list tells
\* whether col_widths is a list (and not, say, a tuple)
init(is_list, col_widths, col_align, stream) ==
    IF ~is_list \/ ~(\A i \in 1..Len(col_widths) :
                        col_widths[i].t = "int" /\ col_widths[i].n > 0)
    THEN Outcome(<<>>, "ValueError", <<>>)
    ELSE IF ~(\A i \in 1..Len(col_align) : col_align[i] \in ALIGNMENTS)
    THEN Outcome(<<>>, "ValueError", <<>>)
    ELSE IF Len(col_widths) # Len(col_align)
    THEN Outcome(<<>>, "ValueError", <<>>)
    ELSE Outcome(<<[col_widths |-> col_widths,
                    col_align |-> col_align,
                    stream |-> stream]>>, "none", <<>>)

\* the loop of start, end and hr over col_widths[:-1]
RECURSIVE BorderSegments(_, _)
BorderSegments(widths, junction) ==
    IF widths = <<>> THEN <<>>
    ELSE Repeat(BOX_H, Head(widths).n) \o <<BOX_H, junction, BOX_H>>
         \o BorderSegments(Tail(widths), junction)

\* a mutant of BorderLine: the padding before each junction is left out
BorderLineUnpadded(widths, left, junction, right) ==
    LET RECURSIVE Seg(_)
        Seg(ws) == IF ws = <<>> THEN <<>>
                   ELSE Repeat(BOX_H, Head(ws).n) \o <<junction, BOX_H>>
                        \o Seg(Tail(ws))
    IN  <<left, BOX_H>> \o Seg(SubSeq(widths, 1, Len(widths) - 1))
        \o Repeat(BOX_H, widths[Len(widths)].n) \o <<BOX_H, right>>

\* the line start, end and hr build
BorderLine(widths, left, junction, right) ==
    <<left, BOX_H>>
    \o BorderSegments(SubSeq(widths, 1, Len(widths) - 1), junction)
    \o Repeat(BOX_H, widths[Len(widths)].n) \o <<BOX_H, right>>

\* start, end and hr: col_widths[-1] of an empty list raises IndexError
Border(self, left, junction, right) ==
    IF Len(self.col_widths) = 0
    THEN Outcome(<<self>>, "IndexError", <<>>)
    ELSE Outcome(<<self>>, "none",
                 <<[sink |-> self.stream,
                    line |-> BorderLine(self.col_widths, left, junction, right)]>>)

start(self) == Border(self, BOX_DR, BOX_DH, BOX_DL)

end(self) == Border(self, BOX_UR, BOX_UH, BOX_UL)

hr(self) == Border(self, BOX_VR, BOX_VH, BOX_VL)

\* the loop of row from item i on: the text it appends, or the exception of
\* the first item that fails (col_align[i], then col_widths[i], then the
\* formatting)
RECURSIVE RowCells(_, _, _, _)
RowCells(self, line, col_align, i) ==
    IF i > Len(line) THEN [raised |-> "none", s |-> <<>>]
    ELSE IF i > Len(col_align) \/ i > Len(self.col_widths)
    THEN [raised |-> "IndexError", s |-> <<>>]
    ELSE LET cell == PyFormat(str(line[i]), col_align[i], self.col_widths[i].n)
             rest == RowCells(self, line, col_align, i + 1)
         IN  IF ~cell.ok THEN [raised |-> "ValueError", s |-> <<>>]
             ELSE IF rest.raised # "none" THEN rest
             ELSE [raised |-> "none",
                   s |-> cell.s \o <<SP, BOX_V, SP>> \o rest.s]

\* a mutant of row: the overrides are stored in the table
rowStoringOverrides(self, line, col_align, stream) ==
    LET s == IF stream = <<>> THEN self.stream ELSE stream[1]
        a == IF col_align = <<>> THEN self.col_align ELSE col_align[1]
        cells == RowCells(self, line, a, 1)
        kept == [self EXCEPT !.col_align = a, !.stream = s]
    IN  IF cells.raised # "none" THEN Outcome(<<kept>>, cells.raised, <<>>)
        ELSE Outcome(<<kept>>, "none",
                     <<[sink |-> s, line |-> <<BOX_V, SP>> \o cells.s]>>)

\* a mutant of row: what was composed before the failing item is written
rowWritingPartial(self, line, col_align, stream) ==
    LET s == IF stream = <<>> THEN self.stream ELSE stream[1]
        a == IF col_align = <<>> THEN self.col_align ELSE col_align[1]
        cells == RowCells(self, line, a, 1)
    IN  IF cells.raised # "none"
        THEN Outcome(<<self>>, cells.raised, <<[sink |-> s, line |-> <<BOX_V, SP>>]>>)
        ELSE Outcome(<<self>>, "none",
                     <<[sink |-> s, line |-> <<BOX_V, SP>> \o cells.s]>>)

\* ContinuousTable.row(line, col_align=None, stream=None)
row(self, line, col_align, stream) ==
    LET s == IF stream = <<>> THEN self.stream ELSE stream[1]
        a == IF col_align = <<>> THEN self.col_align ELSE col_align[1]
        cells == RowCells(self, line, a, 1)
    IN  IF cells.raised # "none" THEN Outcome(<<self>>, cells.raised, <<>>)
        ELSE Outcome(<<self>>, "none",
                     <<[sink |-> s, line |-> <<BOX_V, SP>> \o cells.s]>>)

(***************************************************************************)
(* The caller of the table: the inputs it draws and its steps.             *)
(***************************************************************************)
Idle == [op |-> "idle"]

\* the sequences over S of length 0..n
SeqsUpTo(S, n) == UNION {[1..k -> S] : k \in 0..n}

\* the k items of a cycle from position first on
Window(cycle, first, k) ==
    [i \in 1..k |-> cycle[((first + i - 2) % Len(cycle)) + 1]]

Windows(cycle, k) == {Window(cycle, first, k) : first \in 1..Len(cycle)}

\* the table and the row of the example in the documentation
ExampleWidths == <<PyInt(10), PyInt(10)>>
ExampleRow == <<PyStr(<<"R", "o", "w", " ", "1">>), PyStr(<<"4", "2">>)>>

\* the widths a caller passes: negative, zero, fitting, roomy, not an integer
WidthPool == {PyInt(-1), PyInt(0), PyInt(1), PyInt(3), PyFloat(15)}
WidthLists == SeqsUpTo(WidthPool, MaxCols) \cup {ExampleWidths}

\* the alignment symbols a caller passes to __init__
AlignLists == SeqsUpTo(ALIGNMENTS \cup {"x"}, MaxCols)

\* the sinks: print and the logger's methods
TableStreams == {"print", "LOGGER.info"}
StreamOverrides == {<<>>, <<"LOGGER.warning">>}

\* the values of a row: a text of two characters and a one-digit integer,
\* in rows of up to one more value than the table has columns
ValueCycle == <<PyStr(<<"a", "b">>), PyInt(7)>>
RowInputs(n) ==
    UNION {Windows(ValueCycle, k) : k \in 0..(n + 1)} \cup {ExampleRow}

\* the alignment overrides of a row: none, or a list as long as the table
\* is wide, or one shorter, of recognised and unrecognised symbols
AlignCycle == <<"<", ">", "^", "x", "">>
AlignOverrides(n) ==
    {<<>>} \cup {<<a>> : a \in UNION {Windows(AlignCycle, k) :
                                        k \in {j \in {n - 1, n} : j >= 0}}}

Construct ==
    /\ call = Idle
    /\ table = <<>>
    /\ \E is_list \in BOOLEAN, col_widths \in WidthLists,
          col_align \in AlignLists, stream \in TableStreams :
          LET out == init(is_list, col_widths, col_align, stream)
          IN  /\ call' = [op |-> "init", is_list |-> is_list,
                          col_widths |-> col_widths, col_align |-> col_align,
                          stream |-> stream]
              /\ table' = out.self
              /\ raised' = out.raised
              /\ emitted' = out.emitted
    /\ UNCHANGED <<formatter, dirs, result>>

Finish(op, out) ==
    /\ call' = op
    /\ table' = out.self
    /\ raised' = out.raised
    /\ emitted' = out.emitted
    /\ UNCHANGED <<formatter, dirs, result>>

Start ==
    /\ call = Idle
    /\ table # <<>>
    /\ Finish([op |-> "start"], start(table[1]))

End ==
    /\ call = Idle
    /\ table # <<>>
    /\ Finish([op |-> "end"], end(table[1]))

Hr ==
    /\ call = Idle
    /\ table # <<>>
    /\ Finish([op |-> "hr"], hr(table[1]))

Row ==
    /\ call = Idle
    /\ table # <<>>
    /\ \E line \in RowInputs(Len(table[1].col_widths)),
          col_align \in AlignOverrides(Len(table[1].col_widths)),
          stream \in StreamOverrides :
          Finish([op |-> "row", line |-> line, col_align |-> col_align,
                  stream |-> stream],
                 row(table[1], line, col_align, stream))

\* the caller takes the outcome of its call and goes on
Return ==
    /\ call # Idle
    /\ call' = Idle
    /\ raised' = "none"
    /\ emitted' = <<>>
    /\ result' = <<>>
    /\ UNCHANGED <<table, formatter, dirs>>

\* nothing constructed, nothing called; the working directory exists
Init ==
    /\ table = <<>>
    /\ formatter = <<>>
    /\ dirs = {<<>>}
    /\ call = Idle
    /\ raised = "none"
    /\ emitted = <<>>
    /\ result = <<>>

NextTable == Construct \/ Start \/ End \/ Hr \/ Row \/ Return

SpecTable == Init /\ [][NextTable]_vars

(***************************************************************************)
(* print_table.  The text is what tabulate returned for the arguments.     *)
(***************************************************************************)
\* the position of the first NL of a text that holds one
RECURSIVE FirstNL(_)
FirstNL(text) == IF Head(text) = NL THEN 1 ELSE 1 + FirstNL(Tail(text))

\* a mutant of Split: a text that ends with NL gets no last empty line
RECURSIVE SplitLikeSplitlines(_)
SplitLikeSplitlines(text) ==
    IF text = <<>> THEN <<>>
    ELSE IF \A i \in 1..Len(text) : text[i] # NL THEN <<text>>
    ELSE <<SubSeq(text, 1, FirstNL(text) - 1)>>
         \o SplitLikeSplitlines(SubSeq(text, FirstNL(text) + 1, Len(text)))

\* text.split('\n')
RECURSIVE Split(_)
Split(text) ==
    IF \A i \in 1..Len(text) : text[i] # NL THEN <<text>>
    ELSE <<SubSeq(text, 1, FirstNL(text) - 1)>>
         \o Split(SubSeq(text, FirstNL(text) + 1, Len(text)))

\* print_table(..., stream): one call of stream per line, in order
print_table(text, stream) ==
    LET lines == Split(text)
    IN  [i \in 1..Len(lines) |-> [sink |-> stream, line |-> lines[i]]]

\* the texts tabulate returns
Texts == SeqsUpTo({"a", "b", NL}, MaxText)

PrintTable ==
    /\ call = Idle
    /\ \E text \in Texts, stream \in TableStreams :
          /\ call' = [op |-> "print_table", tabulated |-> text, stream |-> stream]
          /\ emitted' = print_table(text, stream)
          /\ raised' = "none"
    /\ UNCHANGED <<table, formatter, dirs, result>>

\* tabulate raises for its arguments: the exception passes through
PrintTableRaises ==
    /\ call = Idle
    /\ \E stream \in TableStreams :
          call' = [op |-> "print_table", tabulated |-> <<>>, stream |-> stream]
    /\ raised' = "Exception"
    /\ emitted' = <<>>
    /\ UNCHANGED <<table, formatter, dirs, result>>

NextPrint == PrintTable \/ PrintTableRaises \/ Return

SpecPrint == Init /\ [][NextPrint]_vars

(***************************************************************************)
(* CustomFormatter.  A format string is a sequence of tokens: a %-field,   *)
(* a colour code or a single character.                                    *)
(***************************************************************************)
DEBUG == 10
INFO == 20
WARNING == 30
ERROR == 40
CRITICAL == 50

\* the %-fields of the format strings
ASCTIME == "%(asctime)s"
LEVELNAME == "%(levelname)-8s"
MESSAGE == "%(message)s"
THREADNAME == "%(threadName)s"
NAME == "%(name)s"
LINENO == "%(lineno)d"
\* U+2506 '┆'
BOX_V3 == "BOX_V3"

\* self.formats: the same format for each of the five levels
BaseFormat == <<ASCTIME, SP, BOX_V3, SP, LEVELNAME, SP, BOX_V3, SP, MESSAGE>>
formats == [l \in {DEBUG, INFO, WARNING, ERROR, CRITICAL} |-> BaseFormat]

\* self.colours[key] for a level key
colours(key) ==
    CASE key = DEBUG -> <<"Fore.LIGHTBLACK_EX">>
      [] key = INFO -> <<"Fore.RESET">>
      [] key = WARNING -> <<"Fore.YELLOW">>
      [] key = ERROR -> <<"Fore.RED">>
      [] key = CRITICAL -> <<"Style.BRIGHT", "Fore.RED">>

\* self.colours['reset']
coloursReset == <<"Style.RESET_ALL">>

\* s.replace(old, new), old not empty
RECURSIVE Replace(_, _, _)
Replace(s, old, new) ==
    IF Len(s) < Len(old) THEN s
    ELSE IF SubSeq(s, 1, Len(old)) = old
    THEN new \o Replace(SubSeq(s, Len(old) + 1, Len(s)), old, new)
    ELSE <<Head(s)>> \o Replace(Tail(s), old, new)

\* CustomFormatter.__init__(colour, threaded, verbose)
newFormatter(colour, threaded, verbose) ==
    [_colour |-> colour, _threaded |-> threaded, _verbose |-> verbose]

\* a mutant of get_format: the thread name replaces the severity field's
\* place and the severity follows it
get_formatThreadFirst(self, level) ==
    IF level \notin DOMAIN formats
    THEN [raised |-> "ValueError", value |-> <<>>]
    ELSE LET f0 == formats[level]
             f1 == IF self._threaded
                   THEN Replace(f0, <<LEVELNAME>>,
                                <<THREADNAME, SP, "|", SP, LEVELNAME>>)
                   ELSE f0
             f2 == IF self._verbose
                   THEN Replace(f1, <<MESSAGE>>,
                                <<"[", NAME, ":", LINENO, "]", SP, MESSAGE>>)
                   ELSE f1
             f3 == IF self._colour
                   THEN colours(level) \o f2 \o coloursReset
                   ELSE f2
         IN  [raised |-> "none", value |-> <<f3>>]

\* a mutant of get_format: a level without a format gets the INFO format
get_formatDefaulting(self, level) ==
    LET known == IF level \in DOMAIN formats THEN level ELSE INFO
        f0 == formats[known]
        f1 == IF self._threaded
              THEN Replace(f0, <<LEVELNAME>>,
                           <<LEVELNAME, SP, "|", SP, THREADNAME>>)
              ELSE f0
        f2 == IF self._verbose
              THEN Replace(f1, <<MESSAGE>>,
                           <<"[", NAME, ":", LINENO, "]", SP, MESSAGE>>)
              ELSE f1
        f3 == IF self._colour
              THEN colours(known) \o f2 \o coloursReset
              ELSE f2
    IN  [raised |-> "none", value |-> <<f3>>]

\* CustomFormatter.get_format(level)
get_format(self, level) ==
    IF level \notin DOMAIN formats
    THEN [raised |-> "ValueError", value |-> <<>>]
    ELSE LET f0 == formats[level]
             f1 == IF self._threaded
                   THEN Replace(f0, <<LEVELNAME>>,
                                <<LEVELNAME, SP, "|", SP, THREADNAME>>)
                   ELSE f0
             f2 == IF self._verbose
                   THEN Replace(f1, <<MESSAGE>>,
                                <<"[", NAME, ":", LINENO, "]", SP, MESSAGE>>)
                   ELSE f1
             f3 == IF self._colour
                   THEN colours(level) \o f2 \o coloursReset
                   ELSE f2
         IN  [raised |-> "none", value |-> <<f3>>]

\* logging.Formatter(log_fmt).format(record): each %-field gives way to the
\* record's attribute, the severity name left-justified in eight characters
RECURSIVE Render(_, _)
Render(fmt, record) ==
    IF fmt = <<>> THEN <<>>
    ELSE LET tok == Head(fmt)
             text == CASE tok = ASCTIME -> record.asctime
                       [] tok = LEVELNAME -> PyFormat(record.levelname, "<", 8).s
                       [] tok = MESSAGE -> record.message
                       [] tok = THREADNAME -> record.threadName
                       [] tok = NAME -> record.name
                       [] tok = LINENO -> str(PyInt(record.lineno))
                       [] OTHER -> <<tok>>
         IN  text \o Render(Tail(fmt), record)

\* CustomFormatter.format(record)
format(self, record) ==
    LET log_fmt == get_format(self, record.levelno)
    IN  IF log_fmt.raised # "none" THEN log_fmt
        ELSE [raised |-> "none", value |-> <<Render(log_fmt.value[1], record)>>]

\* the severities a caller asks about: the five of logging, NOTSET and two
\* numbers that are no level of logging
LevelPool == {DEBUG, INFO, WARNING, ERROR, CRITICAL} \cup {0, 25, 60}

\* logging.getLevelName(levelno)
LevelName(levelno) ==
    CASE levelno = DEBUG -> <<"D", "E", "B", "U", "G">>
      [] levelno = INFO -> <<"I", "N", "F", "O">>
      [] levelno = WARNING -> <<"W", "A", "R", "N", "I", "N", "G">>
      [] levelno = ERROR -> <<"E", "R", "R", "O", "R">>
      [] levelno = CRITICAL -> <<"C", "R", "I", "T", "I", "C", "A", "L">>
      [] levelno = 0 -> <<"N", "O", "T", "S", "E", "T">>
      [] OTHER -> <<"L", "e", "v", "e", "l", " ">> \o NatStr(levelno)

\* the log records a handler passes to format
Records ==
    {[levelno |-> l, levelname |-> LevelName(l), asctime |-> <<"t">>,
      message |-> <<"m">>, threadName |-> <<"T">>, name |-> <<"n">>,
      lineno |-> 7] : l \in LevelPool}

NewFormatter ==
    /\ call = Idle
    /\ formatter = <<>>
    /\ \E colour \in BOOLEAN, threaded \in BOOLEAN, verbose \in BOOLEAN :
          /\ call' = [op |-> "CustomFormatter", colour |-> colour,
                      threaded |-> threaded, verbose |-> verbose]
          /\ formatter' = <<newFormatter(colour, threaded, verbose)>>
    /\ raised' = "none"
    /\ UNCHANGED <<table, dirs, emitted, result>>

GetFormat ==
    /\ call = Idle
    /\ formatter # <<>>
    /\ \E level \in LevelPool :
          LET out == get_format(formatter[1], level)
          IN  /\ call' = [op |-> "get_format", level |-> level]
              /\ raised' = out.raised
              /\ result' = out.value
    /\ UNCHANGED <<table, formatter, dirs, emitted>>

Format ==
    /\ call = Idle
    /\ formatter # <<>>
    /\ \E record \in Records :
          LET out == format(formatter[1], record)
          IN  /\ call' = [op |-> "format", record |-> record]
              /\ raised' = out.raised
              /\ result' = out.value
    /\ UNCHANGED <<table, formatter, dirs, emitted>>

NextFormat == NewFormatter \/ GetFormat \/ Format \/ Return

SpecFormat == Init /\ [][NextFormat]_vars

(***************************************************************************)
(* get_logging_config.  A path is the sequence of its components; the      *)
(* working directory is <<>>.                                              *)
(***************************************************************************)
MAX_BYTES == 1048576
BACKUP_COUNT == 3

\* log_file.parent
Parent(path) == SubSeq(path, 1, Len(path) - 1)

\* directory.mkdir(parents=True, exist_ok=True): the directories afterwards
Mkdir(existing, directory) ==
    existing \cup {SubSeq(directory, 1, k) : k \in 0..Len(directory)}

\* the dictionary get_logging_config looks the console level up in
stream_log_level_names ==
    [l \in {CRITICAL, ERROR, WARNING, INFO, DEBUG} |->
        CASE l = CRITICAL -> "CRITICAL"
          [] l = ERROR -> "ERROR"
          [] l = WARNING -> "WARNING"
          [] l = INFO -> "INFO"
          [] l = DEBUG -> "DEBUG"]

RotatingFileHandler(level, log_file) ==
    [level |-> level,
     formatter |-> "log-file",
     class |-> "logging.handlers.RotatingFileHandler",
     filename |-> log_file,
     mode |-> "a",
     maxBytes |-> MAX_BYTES,
     backupCount |-> BACKUP_COUNT]

\* the dictionary get_logging_config returns; a formatter factory is the
\* formatter it makes
ConfigDict(log_file, stream_log_level_str, default_formatter, package_handlers) ==
    [version |-> 1,
     disable_existing_loggers |-> FALSE,
     formatters |->
        [standard |-> newFormatter(FALSE, FALSE, FALSE),
         colourful |-> newFormatter(TRUE, FALSE, FALSE),
         log_file |-> newFormatter(FALSE, TRUE, TRUE)],
     handlers |->
        [default |->
            [level |-> stream_log_level_str,
             formatter |-> default_formatter,
             class |-> "logging.StreamHandler",
             stream |-> "ext://sys.stdout"],
         debug_rotating_file_handler |-> RotatingFileHandler("DEBUG", log_file),
         info_rotating_file_handler |-> RotatingFileHandler("INFO", log_file),
         error_rotating_file_handler |-> RotatingFileHandler("WARNING", log_file)],
     loggers |->
        [name \in {""} |-> [level |-> DEBUG, handlers |-> package_handlers]]]

\* a mutant of get_logging_config: the debug file handler takes the
\* console's threshold
get_logging_configFilteringFile(existing, log_file, stream_log_level, colourful) ==
    LET made == Mkdir(existing, Parent(log_file))
        package_handlers ==
            <<"default">> \o <<"error_rotating_file_handler",
                               "info_rotating_file_handler",
                               "debug_rotating_file_handler">>
    IN  IF stream_log_level \notin DOMAIN stream_log_level_names
        THEN [dirs |-> made, raised |-> "KeyError", value |-> <<>>]
        ELSE LET d == ConfigDict(log_file,
                          stream_log_level_names[stream_log_level],
                          IF colourful THEN "colourful" ELSE "standard",
                          package_handlers)
             IN  [dirs |-> made, raised |-> "none",
                  value |-> <<[d EXCEPT
                      !.handlers.debug_rotating_file_handler.level =
                          stream_log_level_names[stream_log_level]]>>]

\* get_logging_config(log_file, stream_log_level, colourful) with the
\* directories that exist: the directories afterwards, the exception, the
\* dictionary returned
get_logging_config(existing, log_file, stream_log_level, colourful) ==
    LET made == Mkdir(existing, Parent(log_file))
        package_handlers ==
            <<"default">> \o <<"error_rotating_file_handler",
                               "info_rotating_file_handler",
                               "debug_rotating_file_handler">>
    IN  IF stream_log_level \notin DOMAIN stream_log_level_names
        THEN [dirs |-> made, raised |-> "KeyError", value |-> <<>>]
        ELSE [dirs |-> made, raised |-> "none",
              value |-> <<ConfigDict(log_file,
                              stream_log_level_names[stream_log_level],
                              IF colourful THEN "colourful" ELSE "standard",
                              package_handlers)>>]

\* the log files a caller names
LogFiles ==
    {<<"app.log">>, <<"cache", "app.log">>, <<"cache", "pkg", "app.log">>,
     <<"tmp", "b.log">>}

GetLoggingConfig ==
    /\ call = Idle
    /\ \E log_file \in LogFiles, stream_log_level \in LevelPool,
          colourful \in BOOLEAN :
          LET out == get_logging_config(dirs, log_file, stream_log_level, colourful)
          IN  /\ call' = [op |-> "get_logging_config", log_file |-> log_file,
                          stream_log_level |-> stream_log_level,
                          colourful |-> colourful]
              /\ dirs' = out.dirs
              /\ raised' = out.raised
              /\ result' = out.value
    /\ UNCHANGED <<table, formatter, emitted>>

NextConfig == GetLoggingConfig \/ Return

SpecConfig == Init /\ [][NextConfig]_vars

(***************************************************************************)
(* Claims about ContinuousTable, checked under SpecTable.                  *)
(***************************************************************************)
\* the widths of a list added up
RECURSIVE SumWidths(_)
SumWidths(ws) == IF ws = <<>> THEN 0 ELSE Head(ws).n + SumWidths(Tail(ws))

\* line is a border over widths ws: the left corner, one run of width + 2
\* BOX_H per column, a junction between two runs, the right corner
IsBorder(line, ws, left, junction, right) ==
    LET n == Len(ws)
        junctions == {1 + SumWidths(SubSeq(ws, 1, i)) + 3 * i : i \in 1..(n - 1)}
    IN  /\ Len(line) = SumWidths(ws) + 3 * n + 1
        /\ \A p \in 1..Len(line) :
              line[p] = IF p = 1 THEN left
                        ELSE IF p = Len(line) THEN right
                        ELSE IF p \in junctions THEN junction
                        ELSE BOX_H

\* out is the row of the values line in columns of widths ws aligned by
\* align: BOX_V SP, then per column the value's whole text, padded with
\* spaces to the width (before it for '>', after it for '<', on both sides
\* for '^'), then SP BOX_V SP
IsRow(out, ws, align, line) ==
    LET n == Len(line)
        text(i) == str(line[i])
        pad(i) == IF ws[i].n > Len(text(i)) THEN ws[i].n - Len(text(i)) ELSE 0
        RECURSIVE before(_)
        before(i) == IF i = 1 THEN 2
                     ELSE before(i - 1) + pad(i - 1) + Len(text(i - 1)) + 3
        lefts(i) == CASE align[i] = ">" -> {pad(i)}
                      [] align[i] = "<" -> {0}
                      [] align[i] = "^" ->
                            {l \in 0..pad(i) : (pad(i) - l) - l \in {-1, 0, 1}}
    IN  /\ Len(out) = before(n + 1)
        /\ SubSeq(out, 1, 2) = <<BOX_V, SP>>
        /\ \A i \in 1..n : \E l \in lefts(i) :
              SubSeq(out, before(i) + 1, before(i + 1))
                  = Repeat(SP, l) \o text(i) \o Repeat(SP, pad(i) - l)
                    \o <<SP, BOX_V, SP>>

\* C1: on a table of n >= 1 columns each of start, hr and end calls the
\* table's sink exactly once, with one line of length sum(widths) + 3n + 1:
\* a run of width + 2 BOX_H per column in column order, the runs separated
\* by the junction of the line's role and enclosed by its two corners.
C1_BorderLines ==
    \A b \in {<<"start", BOX_DR, BOX_DH, BOX_DL>>,
              <<"hr", BOX_VR, BOX_VH, BOX_VL>>,
              <<"end", BOX_UR, BOX_UH, BOX_UL>>} :
        (call.op = b[1] /\ Len(table[1].col_widths) >= 1) =>
            /\ raised = "none"
            /\ Len(emitted) = 1
            /\ emitted[1].sink = table[1].stream
            /\ IsBorder(emitted[1].line, table[1].col_widths, b[2], b[3], b[4])

\* hr has drawn the rule of a table of two columns of different widths
C1_Witness ==
    /\ call.op = "hr"
    /\ table[1].col_widths = <<PyInt(1), PyInt(3)>>
    /\ Len(emitted) = 1
    /\ emitted[1].line = <<BOX_VR, BOX_H, BOX_H, BOX_H, BOX_VH, BOX_H, BOX_H,
                           BOX_H, BOX_H, BOX_H, BOX_VL>>

\* C2: row with one value per column and recognised effective alignments
\* (the override if given, else the table's) emits exactly one line:
\* BOX_V SP and then per column the cell and SP BOX_V SP, the cell being
\* the value's text padded to the column's width as its alignment says and
\* never cut.  The documented example gives the documented line.
C2_RowLines ==
    (call.op = "row") =>
        LET self == table[1]
            n == Len(self.col_widths)
            align == IF call.col_align = <<>> THEN self.col_align
                     ELSE call.col_align[1]
        IN  (/\ Len(call.line) = n
             /\ Len(align) >= n
             /\ \A i \in 1..n : align[i] \in {"<", ">", "^"}) =>
                /\ raised = "none"
                /\ Len(emitted) = 1
                /\ IsRow(emitted[1].line, self.col_widths, align, call.line)
                /\ (/\ self.col_widths = ExampleWidths
                    /\ align = <<">", ">">>
                    /\ call.line = ExampleRow) =>
                        emitted[1].line =
                            <<BOX_V, SP, SP, SP, SP, SP, SP,
                              "R", "o", "w", " ", "1", SP, BOX_V, SP,
                              SP, SP, SP, SP, SP, SP, SP, SP,
                              "4", "2", SP, BOX_V, SP>>

\* a row with an alignment override whose first value is wider than its
\* column and whose second is centred in a wider column
C2_Witness ==
    /\ call.op = "row"
    /\ call.col_align = << <<">", "^">> >>
    /\ table[1].col_widths = <<PyInt(1), PyInt(3)>>
    /\ Len(emitted) = 1
    /\ emitted[1].line = <<BOX_V, SP, "a", "b", SP, BOX_V, SP,
                           SP, "7", SP, SP, BOX_V, SP>>

\* C3: constructing a table raises, leaving no table and calling no sink,
\* when the two lists differ in length, when a width is zero, negative or
\* not an integer, and when an alignment is none of '<', '>', '^'; every
\* other pair of lists constructs a table that stores exactly the widths,
\* the alignments and the sink given.
C3_Construction ==
    (call.op = "init") =>
        LET mismatch == Len(call.col_widths) # Len(call.col_align)
            badWidth == \E i \in 1..Len(call.col_widths) :
                            \/ call.col_widths[i].t # "int"
                            \/ call.col_widths[i].n <= 0
            badAlign == \E i \in 1..Len(call.col_align) :
                            call.col_align[i] \notin {"<", ">", "^"}
        IN  /\ (mismatch \/ badWidth \/ badAlign) =>
                    /\ raised # "none"
                    /\ table = <<>>
                    /\ emitted = <<>>
            /\ (call.is_list /\ ~mismatch /\ ~badWidth /\ ~badAlign) =>
                    /\ raised = "none"
                    /\ table = <<[col_widths |-> call.col_widths,
                                  col_align |-> call.col_align,
                                  stream |-> call.stream]>>
                    /\ emitted = <<>>

\* a construction refused only because the lists differ in length
C3_Witness ==
    /\ call.op = "init"
    /\ call.is_list
    /\ call.col_widths = <<PyInt(1), PyInt(3)>>
    /\ call.col_align = <<"<">>
    /\ raised = "ValueError"
    /\ table = <<>>

\* C4: constructing a table from an empty width list raises, so no table
\* has zero columns and start, hr and end never run without a last column.
C4_NonemptyWidths ==
    /\ (call.op = "init" /\ call.col_widths = <<>> /\ call.col_align = <<>>) =>
            raised # "none"
    /\ (table # <<>>) => Len(table[1].col_widths) >= 1
    /\ (call.op \in {"start", "hr", "end"}) => raised = "none"

\* C9: once constructed a table keeps its widths, alignments and sink over
\* every call; a row with a sink override writes its one line to that sink
\* and nothing to the table's; a row without overrides is aligned by the
\* table's alignments and written to the table's sink.
C9_OverridesTransient ==
    /\ [][(table # <<>>) => (table' = table)]_vars
    /\ [](/\ (call.op = "row" /\ raised = "none" /\ call.stream # <<>>) =>
                /\ Len(emitted) = 1
                /\ \A k \in 1..Len(emitted) :
                      /\ emitted[k].sink = call.stream[1]
                      /\ emitted[k].sink # table[1].stream
          /\ (/\ call.op = "row"
              /\ call.stream = <<>>
              /\ call.col_align = <<>>
              /\ Len(call.line) = Len(table[1].col_widths)) =>
                /\ raised = "none"
                /\ Len(emitted) = 1
                /\ emitted[1].sink = table[1].stream
                /\ IsRow(emitted[1].line, table[1].col_widths,
                         table[1].col_align, call.line))

\* a row written with both overrides to a table whose own alignments and
\* sink differ from them
C9_Witness ==
    /\ call.op = "row"
    /\ call.stream = <<"LOGGER.warning">>
    /\ call.col_align = << <<">", "^">> >>
    /\ table = <<[col_widths |-> <<PyInt(3), PyInt(3)>>,
                  col_align |-> <<"<", "<">>,
                  stream |-> "LOGGER.info"]>>
    /\ raised = "none"
    /\ Len(emitted) = 1

\* C10: a row that raises calls no sink and leaves the table as it was; a
\* row given more values than the table has columns, or an alignment
\* override shorter than the values, or an override symbol the formatting
\* rejects for one of the values, raises.
C10_FailedRow ==
    /\ [][(call'.op = "row" /\ raised' # "none") =>
              (emitted' = <<>> /\ table' = table)]_vars
    /\ [](call.op = "row" =>
            LET over == call.col_align # <<>>
            IN  (\/ Len(call.line) > Len(table[1].col_widths)
                 \/ over /\ Len(call.col_align[1]) < Len(call.line)
                 \/ over /\ \E i \in 1..Len(call.line) :
                        /\ i <= Len(call.col_align[1])
                        /\ call.col_align[1][i] = "x")
                => raised # "none")

\* a row refused for an override symbol, with a sink override
C10_Witness ==
    /\ call.op = "row"
    /\ raised = "ValueError"
    /\ call.stream = <<"LOGGER.warning">>
    /\ Len(call.line) = Len(table[1].col_widths)
    /\ emitted = <<>>

(***************************************************************************)
(* Claims about get_logging_config, checked under SpecConfig.              *)
(***************************************************************************)
\* C5: for each of the five console thresholds and either colour flag the
\* configuration has exactly four handlers: three rotating file handlers
\* on the given log file with one size cap and one backup count, at DEBUG,
\* INFO and WARNING whatever the console threshold, and one console handler
\* at the requested threshold's name; the root logger has all four, at
\* DEBUG.
C5_Handlers ==
    (/\ call.op = "get_logging_config"
     /\ call.stream_log_level \in {10, 20, 30, 40, 50}) =>
        /\ raised = "none"
        /\ result # <<>>
        /\ LET H == result[1].handlers
               root == result[1].loggers[""]
               files == {h \in DOMAIN H :
                            H[h].class = "logging.handlers.RotatingFileHandler"}
               consoles == {h \in DOMAIN H : H[h].class = "logging.StreamHandler"}
           IN  /\ Cardinality(DOMAIN H) = 4
               /\ Cardinality(files) = 3
               /\ Cardinality(consoles) = 1
               /\ \A h \in files : H[h].filename = call.log_file
               /\ \A h, g \in files :
                     /\ H[h].maxBytes = H[g].maxBytes
                     /\ H[h].backupCount = H[g].backupCount
               /\ H["debug_rotating_file_handler"].level = "DEBUG"
               /\ H["info_rotating_file_handler"].level = "INFO"
               /\ H["error_rotating_file_handler"].level = "WARNING"
               /\ \A h \in consoles :
                     H[h].level =
                        CASE call.stream_log_level = 10 -> "DEBUG"
                          [] call.stream_log_level = 20 -> "INFO"
                          [] call.stream_log_level = 30 -> "WARNING"
                          [] call.stream_log_level = 40 -> "ERROR"
                          [] call.stream_log_level = 50 -> "CRITICAL"
               /\ Len(root.handlers) = 4
               /\ {root.handlers[i] : i \in 1..4} = DOMAIN H
               /\ root.level = 10

\* a configuration asked for with the console at CRITICAL and no colour
C5_Witness ==
    /\ call.op = "get_logging_config"
    /\ call.stream_log_level = CRITICAL
    /\ ~call.colourful
    /\ call.log_file = <<"cache", "pkg", "app.log">>
    /\ result # <<>>
    /\ result[1].handlers["default"].level = "CRITICAL"
    /\ result[1].handlers["debug_rotating_file_handler"].level = "DEBUG"

C7_UnknownLevel ==
    (call.op = "format") =>
        /\ (call.record.levelno \notin {10, 20, 30, 40, 50}) =>
                (raised # "none" /\ result = <<>>)
        /\ (call.record.levelno \in {10, 20, 30, 40, 50}) =>
                (raised = "none" /\ result # <<>>)

\* a coloured formatter has refused a record of severity 25
C7_Witness ==
    /\ call.op = "format"
    /\ call.record.levelno = 25
    /\ formatter[1]._colour
    /\ raised = "ValueError"
    /\ result = <<>>

(***************************************************************************)
(* Claims about print_table, checked under SpecPrint.                      *)
(***************************************************************************)
\* the lines joined by NL
RECURSIVE JoinLines(_)
JoinLines(lines) ==
    IF Len(lines) = 1 THEN lines[1].line
    ELSE lines[1].line \o <<NL>> \o JoinLines(Tail(lines))

\* C8: print_table calls the sink once per line of the formatted text, in
\* order: as many calls as the text has NL-separated lines, no line holds
\* an NL, and the lines joined by NL are the text.
C8_LinePerCall ==
    (call.op = "print_table" /\ raised = "none") =>
        /\ Len(emitted) =
              1 + Cardinality({i \in 1..Len(call.tabulated) : call.tabulated[i] = NL})
        /\ \A k \in 1..Len(emitted) :
              /\ emitted[k].sink = call.stream
              /\ \A i \in 1..Len(emitted[k].line) : emitted[k].line[i] # NL
        /\ JoinLines(emitted) = call.tabulated

\* a text with an empty line in the middle has gone out as three lines
C8_Witness ==
    /\ call.op = "print_table"
    /\ call.tabulated = <<"a", NL, NL, "b">>
    /\ Len(emitted) = 3
    /\ emitted[2].line = <<>>

====
